---- MODULE Spec2Model ----
(***************************************************************************)
(* Drupal core's Ajax subsystem (core/misc/ajax.js) as bundled in          *)
(* web/sites/default/files/js/js_fubYcco...js.                             *)
(*                                                                         *)
(* Four specifications share the module and its actions:                   *)
(*   Spec      the requests of several Drupal.Ajax objects in any          *)
(*             interleaving: trigger events, execute(), jQuery's response  *)
(*             handling, the deferred global events and jQuery's           *)
(*             active-request counter; a response carries at most one      *)
(*             command;                                                    *)
(*   SpecQueue the command execution queue: requests sent one after the    *)
(*             other by execute(), answered by responses of up to MaxCmds  *)
(*             commands;                                                   *)
(*   SpecInst  the registry Drupal.ajax.instances: Drupal.ajax(),          *)
(*             Drupal.ajax.expired() and Drupal.behaviors.AJAX.detach;     *)
(*   SpecJs    the add_js command and the loadjs library it calls:         *)
(*             responses made of an add_js command and a later command,    *)
(*             handled by the Ajax objects Drupal.ajax() created, and the  *)
(*             load and error events of the script elements.               *)
(* JavaScript runs one task at a time and empties the microtask queue      *)
(* after it, so every action is one task (an event handler, a jQuery       *)
(* callback, the settlement of a command's promise) followed by the        *)
(* promise reactions it made runnable.                                     *)
(***************************************************************************)
EXTENDS Integers, Sequences, FiniteSets, TLC

\* ---------------------------------------------------------------- bounds
NumAjax == 2        \* Drupal.Ajax objects of the request life cycle
MaxReq == 2         \* requests sent in one behaviour
MaxCmds == 2        \* commands in one response
MaxInstances == 3   \* calls of Drupal.ajax() in one behaviour
NumElements == 2    \* DOM elements Ajax objects can be bound to
MaxScripts == 2     \* scripts in the data of one add_js command

Objs == 1..NumAjax

\* `false`, the value of settings.element || false when no element is given.
NoElement == 0
Elements == 1..NumElements

VARIABLES
    ajaxing,    \* per Ajax object: the ajaxing field, "undefined" | "true" | "false"
    active,     \* jQuery.active, jQuery's counter of active requests
    reqs,       \* the requests in progress, in the order they were sent
    nsent,      \* how many requests were sent so far
    ret,        \* the task that ran last: what it returned or threw, the
                \* global events it delivered, the request it handled
    instances,  \* Drupal.ajax.instances
    body,       \* the elements document.body contains
    bundleIdCache,        \* loadjs: the bundle ids defined (c in the minified source)
    bundleResultCache,    \* loadjs: per bundle id published, the paths not found (u)
    bundleCallbackQueue,  \* loadjs: per bundle id waited for, the callbacks of ready() (f)
    scripts,    \* the script elements whose load or error event is still to come
    addjs       \* per instanceIndex: the add_js command whose promise is pending, if any

jsVars == <<bundleIdCache, bundleResultCache, bundleCallbackQueue, scripts, addjs>>
vars == <<ajaxing, active, reqs, nsent, ret, instances, body, jsVars>>
reqVars == <<ajaxing, active, reqs, nsent>>
instVars == <<instances, body>>

\* ------------------------------------------------------------ value sets
\* The commands of a response by what they do when they are invoked: return
\* no promise, return a promise (add_js), or name no method of
\* Drupal.AjaxCommands. A command that fails is a command whose promise is
\* rejected.
CommandKinds == {"sync", "promise", "unknown"}

RECURSIVE SeqsUpTo(_, _)
SeqsUpTo(S, n) ==
    IF n = 0 THEN {<<>>}
    ELSE LET shorter == SeqsUpTo(S, n - 1)
         IN shorter \cup {Append(s, x) : s \in {t \in shorter : Len(t) = n - 1}, x \in S}

\* A response body: null, or a list of commands (possibly empty).
Responses ==
    {[isNull |-> TRUE, cmds |-> <<>>]}
        \cup {[isNull |-> FALSE, cmds |-> c] : c \in SeqsUpTo(CommandKinds, MaxCmds)}

\* The responses of no command or of a single one.
ShortResponses ==
    {resp \in Responses : resp.cmds = <<>> \/ \E kind \in CommandKinds : resp.cmds = <<kind>>}

\* Values of xmlhttprequest.getResponseHeader('X-Drupal-Ajax-Token').
Headers == {"1", "null"}

Keys == 1..MaxCmds

\* A request as $.ajax() leaves it: in flight, nothing received yet.
NewRequest(a) ==
    [obj |-> a, phase |-> "inflight", header |-> "null", trusted |-> FALSE,
     isNull |-> FALSE, cmds |-> <<>>, cstate |-> <<>>, chain |-> <<>>, order |-> <<>>,
     successCalled |-> FALSE, error |-> "none", events |-> <<>>, dec |-> 0]

NoRequest == NewRequest(0)

\* The record of a task: the handler or callback that ran, the Ajax object, what
\* it returned or threw, whether it called beforeSerialize and sent a request,
\* the global events it delivered and the request it handled.
Ret(op, a, result, serialized, sent, delivered, rq) ==
    [op |-> op, obj |-> a, result |-> result, serialized |-> serialized, sent |-> sent,
     trusted |-> FALSE, isLocal |-> FALSE, delivered |-> delivered, rq |-> rq]

Idle == Ret("none", 0, "none", FALSE, FALSE, <<>>, NoRequest)

Remove(s, r) == [i \in 1..(Len(s) - 1) |-> IF i < r THEN s[i] ELSE s[i + 1]]

\* ------------------------------------------------- Drupal.Ajax: sending
\* ajax.options.isInProgress(): the ajaxing field, undefined until the first
\* request (the constructor never sets it).
isInProgress(a) == ajaxing[a] = "true"

\* The guard with the negation of isLocal left out.
NotLocalNotTrustedLocalNegationLost(trusted, isLocal) == ~trusted /\ isLocal

\* The guard of the handler bound to the trigger event. trusted is
\* drupalSettings.ajaxTrustedUrl[ajax.url] and isLocal is Drupal.url.isLocal(ajax.url),
\* both read from the page when the handler runs.
NotLocalNotTrusted(trusted, isLocal) == ~trusted /\ ~isLocal

\* $.ajax() with an options.beforeSend that does not set ajaxing.
JQueryAjaxFlagNotSet(a) ==
    /\ nsent < MaxReq
    /\ nsent' = nsent + 1
    /\ active' = active + 1
    /\ ajaxing' = ajaxing
    /\ reqs' = Append(reqs, NewRequest(a))

\* $.ajax(ajax.options): jQuery counts the request in jQuery.active, calls
\* options.beforeSend, which sets ajaxing, and sends.
JQueryAjax(a) ==
    /\ nsent < MaxReq
    /\ nsent' = nsent + 1
    /\ active' = active + 1
    /\ ajaxing' = [ajaxing EXCEPT ![a] = "true"]
    /\ reqs' = Append(reqs, NewRequest(a))

\* Drupal.Ajax.prototype.execute
Execute(a, fail) ==
    /\ UNCHANGED <<instVars, jsVars>>
    /\ IF isInProgress(a)
       THEN /\ ret' = Ret("execute", a, "undefined", FALSE, FALSE, <<>>, NoRequest)
            /\ UNCHANGED <<ajaxing, active, reqs, nsent>>
       ELSE IF fail = "serialize"
       THEN \* beforeSerialize throws: the catch block
            /\ ajaxing' = [ajaxing EXCEPT ![a] = "false"]
            /\ ret' = Ret("execute", a, "rejected", TRUE, FALSE, <<>>, NoRequest)
            /\ UNCHANGED <<active, reqs, nsent>>
       ELSE /\ fail = "none"
            /\ JQueryAjax(a)
            /\ ret' = Ret("execute", a, "jqXHR", TRUE, TRUE, <<>>, NoRequest)

\* Drupal.Ajax.prototype.eventResponse
eventResponse(a, trusted, isLocal, fail) ==
    IF isInProgress(a)
    THEN /\ ret' = [Ret("event", a, "undefined", FALSE, FALSE, <<>>, NoRequest)
                       EXCEPT !.trusted = trusted, !.isLocal = isLocal]
         /\ UNCHANGED <<ajaxing, active, reqs, nsent>>
    ELSE IF fail = "serialize"
    THEN \* beforeSerialize throws, called by ajaxSubmit or directly: the catch block
         /\ ajaxing' = [ajaxing EXCEPT ![a] = "false"]
         /\ ret' = [Ret("event", a, "alert", TRUE, FALSE, <<>>, NoRequest)
                       EXCEPT !.trusted = trusted, !.isLocal = isLocal]
         /\ UNCHANGED <<active, reqs, nsent>>
    ELSE \* $form.ajaxSubmit(options) or beforeSerialize and $.ajax(options):
         \* both serialize, set ajaxing and send
         /\ fail = "none"
         /\ JQueryAjax(a)
         /\ ret' = [Ret("event", a, "undefined", TRUE, TRUE, <<>>, NoRequest)
                       EXCEPT !.trusted = trusted, !.isLocal = isLocal]

\* The handler bound to elementSettings.event on the element.
TriggerEvent(a, trusted, isLocal, fail) ==
    /\ UNCHANGED <<instVars, jsVars>>
    /\ IF NotLocalNotTrusted(trusted, isLocal)
       THEN /\ ret' = [Ret("event", a, "throw: not local and not trusted", FALSE, FALSE,
                           <<>>, NoRequest)
                          EXCEPT !.trusted = trusted, !.isLocal = isLocal]
            /\ UNCHANGED <<ajaxing, active, reqs, nsent>>
       ELSE eventResponse(a, trusted, isLocal, fail)

\* ------------------------------------------- jQuery: the global events
\* stopEvent(xhr, settings): only Drupal's Ajax responses, and only while the
\* request is in progress.
stopEvent(header, inProgress) == header = "1" /\ inProgress

\* $.event.special.ajaxSuccess.trigger: the events the trigger delivers.
TriggerAjaxSuccess(header, inProgress) ==
    IF stopEvent(header, inProgress) THEN <<>> ELSE <<"ajaxSuccess">>

\* $.event.special.ajaxComplete.trigger: the events the trigger delivers.
TriggerAjaxComplete(header, inProgress) ==
    IF stopEvent(header, inProgress) THEN <<>> ELSE <<"ajaxComplete">>

\* $.event.special.ajaxComplete.trigger: a stopped event increments jQuery.active.
ActiveAfterAjaxComplete(header, inProgress, act) ==
    IF stopEvent(header, inProgress) THEN act + 1 ELSE act

\* if (--$.active === 0) $(document).trigger('ajaxStop')
TriggerAjaxStop(act) == IF act = 0 THEN <<"ajaxStop">> ELSE <<>>

\* What jQuery does once options.success has returned: ajaxSuccess, the
\* complete callbacks (options.complete does nothing for a success), ajaxComplete,
\* then the counter and ajaxStop.
JQueryAfterSuccess(header, inProgress, act) ==
    LET act2 == ActiveAfterAjaxComplete(header, inProgress, act) - 1
    IN [events |-> TriggerAjaxSuccess(header, inProgress)
                       \o TriggerAjaxComplete(header, inProgress)
                       \o TriggerAjaxStop(act2),
        active |-> act2]

\* ------------------------------------------- the command execution queue
\* The promise the i-th then() of the queue waits for: Promise.resolve() for
\* the first key, the promise of the previous then() for the others.
Previous(rq, i) == IF i = 1 THEN "fulfilled" ELSE rq.chain[i - 1]

\* The callback calling the command without returning what it returned: the
\* promise of then() is fulfilled as soon as the command was called.
CallbackResultNotReturned(kind) ==
    IF kind = "unknown" THEN [cstate |-> "skipped", chain |-> "fulfilled"]
    ELSE IF kind = "promise" THEN [cstate |-> "running", chain |-> "fulfilled"]
    ELSE [cstate |-> "finished", chain |-> "fulfilled"]

\* What the callback of the i-th then() leaves: the state of the command and
\* of the promise then() returned. A command that returns a promise keeps the
\* promise of then() pending until the command's promise settles.
CallbackResult(kind) ==
    IF kind = "unknown" THEN [cstate |-> "skipped", chain |-> "fulfilled"]
    ELSE IF kind = "promise" THEN [cstate |-> "running", chain |-> "pending"]
    ELSE [cstate |-> "finished", chain |-> "fulfilled"]

\* The reaction of the i-th then() of the queue, if it can run now: its
\* callback when the previous promise is fulfilled, a rejection passed on
\* without running the callback when the previous promise is rejected.
Reaction(rq, i) ==
    IF rq.chain[i] # "pending" \/ rq.cstate[i] # "idle" THEN rq
    ELSE IF Previous(rq, i) = "rejected" THEN [rq EXCEPT !.chain[i] = "rejected"]
    ELSE IF Previous(rq, i) = "fulfilled"
    THEN LET res == CallbackResult(rq.cmds[i])
         IN [rq EXCEPT !.cstate[i] = res.cstate, !.chain[i] = res.chain,
                       !.order = IF rq.cmds[i] = "unknown" THEN @ ELSE Append(@, i)]
    ELSE rq

\* The reactions of the queue that can run, in the order of the keys: the
\* microtasks run before the next task.
RECURSIVE RunQueue(_, _)
RunQueue(rq, i) ==
    IF i > Len(rq.cmds) THEN rq ELSE RunQueue(Reaction(rq, i), i + 1)

\* The promise commandExecutionQueue returned.
QueuePromise(rq) == IF Len(rq.cmds) = 0 THEN "fulfilled" ELSE rq.chain[Len(rq.cmds)]

\* ------------------------------------------- Drupal.Ajax: the response
\* The check without the test of the header.
VerifiedWithoutHeader(trusted, resp, header) == TRUE

\* The check of ajax.options.success before the commands are invoked. trusted is
\* drupalSettings.ajaxTrustedUrl[ajax.url], read when the response arrives.
Verified(trusted, resp, header) == resp.isNull \/ trusted \/ header = "1"

\* Drupal.Ajax.prototype.success and commandExecutionQueue, the synchronous
\* part: one then() per key of the response, none of them run yet.
QueueCommands(rq, resp, header, trusted) ==
    [rq EXCEPT !.phase = "executing", !.header = header, !.isNull = resp.isNull,
               !.trusted = trusted,
               !.cmds = resp.cmds, !.successCalled = TRUE,
               !.cstate = [i \in 1..Len(resp.cmds) |-> "idle"],
               !.chain = [i \in 1..Len(resp.cmds) |-> "pending"]]

\* Drupal.Ajax.prototype.error: throws Drupal.AjaxError.
AjaxError(rq, resp, header, trusted, phase, message) ==
    [rq EXCEPT !.phase = phase, !.header = header, !.isNull = resp.isNull,
               !.trusted = trusted,
               !.cmds = resp.cmds, !.error = message,
               !.cstate = [i \in 1..Len(resp.cmds) |-> "idle"],
               !.chain = [i \in 1..Len(resp.cmds) |-> "pending"]]

\* The last then() of ajax.options.success: ajaxing is reset first, then the
\* events jQuery was kept from delivering are triggered and jQuery.active is
\* decremented.
SuccessThen(header, act) ==
    [ajaxing |-> "false",
     events |-> TriggerAjaxSuccess(header, FALSE) \o TriggerAjaxComplete(header, FALSE)
                    \o TriggerAjaxStop(ActiveAfterAjaxComplete(header, FALSE, act) - 1),
     active |-> ActiveAfterAjaxComplete(header, FALSE, act) - 1]

\* The last then() not waiting for the promise of Drupal.Ajax.prototype.success.
QueueSettledNotAwaited(rq) == TRUE

\* May the last then() of ajax.options.success run: it waits for the promise of
\* Drupal.Ajax.prototype.success, whose catch() turns a rejection of the queue
\* into a fulfilment.
QueueSettled(rq) == QueuePromise(rq) # "pending"

\* The microtasks that follow a task which left request r as q, with
\* jQuery.active at act: the reactions of the queue and, once the queue has
\* settled, the then() and catch() of Drupal.Ajax.prototype.success and the
\* last then() of ajax.options.success. early are the events the task itself
\* delivered.
Microtasks(op, r, q, act, early) ==
    LET a == q.obj
        q2 == RunQueue(q, 1)
        fin == SuccessThen(q2.header, act)
    IN  IF QueueSettled(q2)
        THEN /\ ajaxing' = [ajaxing EXCEPT ![a] = fin.ajaxing]
             /\ active' = fin.active
             /\ reqs' = Remove(reqs, r)
             /\ ret' = Ret(op, a, QueuePromise(q2), FALSE, FALSE, early \o fin.events,
                           [q2 EXCEPT !.phase = "done", !.events = @ \o fin.events,
                                      !.dec = @ + (act - fin.active)])
        ELSE /\ active' = act
             /\ reqs' = [reqs EXCEPT ![r] = q2]
             /\ ret' = Ret(op, a, "pending", FALSE, FALSE, early, q2)
             /\ UNCHANGED ajaxing

\* ajax.options.success, called by jQuery with a response of status success.
\* A response that fails verification makes ajax.error throw out of jQuery's
\* completion code: nothing after the callback runs.
OptionsSuccess(r, resp, header, trusted) ==
    LET rq == reqs[r]
        a == rq.obj
    IN  /\ rq.phase = "inflight"
        /\ UNCHANGED <<instVars, jsVars, nsent>>
        /\ IF ~Verified(trusted, resp, header)
           THEN /\ reqs' = Remove(reqs, r)
                /\ ret' = Ret("success", a, "throw: AjaxError", FALSE, FALSE, <<>>,
                              AjaxError(rq, resp, header, trusted, "unverified",
                                        "failed verification"))
                /\ UNCHANGED <<ajaxing, active>>
           ELSE LET after == JQueryAfterSuccess(header, isInProgress(a), active)
                    q == [QueueCommands(rq, resp, header, trusted) EXCEPT
                              !.events = after.events, !.dec = active - after.active]
                IN  Microtasks("success", r, q, after.active, after.events)

\* ajax.options.error then ajax.options.complete, called by jQuery with a
\* response of status error or parsererror: ajaxing is reset, ajaxError is
\* delivered, and complete() throws Drupal.AjaxError out of jQuery's completion
\* code before ajaxComplete and the counter.
OptionsError(r) ==
    LET rq == reqs[r]
        a == rq.obj
    IN  /\ rq.phase = "inflight"
        /\ UNCHANGED <<instVars, jsVars, active, nsent>>
        /\ ajaxing' = [ajaxing EXCEPT ![a] = "false"]
        /\ reqs' = Remove(reqs, r)
        /\ ret' = Ret("error", a, "throw: AjaxError", FALSE, FALSE, <<"ajaxError">>,
                      [rq EXCEPT !.phase = "error", !.error = "AjaxError",
                                 !.events = <<"ajaxError">>])

\* The promise command i returned settles.
Settle(r, i, ok) ==
    LET rq == reqs[r]
    IN  /\ rq.phase = "executing"
        /\ i \in 1..Len(rq.cmds)
        /\ rq.cstate[i] = "running"
        /\ UNCHANGED <<instVars, jsVars, nsent>>
        /\ Microtasks("settle", r,
                      [rq EXCEPT !.cstate[i] = IF ok THEN "finished" ELSE "failed",
                                 !.chain[i] = IF ok THEN "fulfilled" ELSE "rejected"],
                      active, <<>>)

\* ------------------------------------------------- add_js and loadjs: values
\* The src attributes of the scripts a response can list.
Srcs == {"a.js", "b.js"}

\* The values instanceIndex takes, counted from 0.
InstanceIndexes == 0..(MaxInstances - 1)

\* const uniqueBundleId = script.src + ajax.instanceIndex;
BundleId(src, instanceIndex) == src \o ToString(instanceIndex)

\* The data of an add_js command: the src of each script, in order.
Datas == SeqsUpTo(Srcs, MaxScripts)

\* An entry of bundleResultCache that was never written.
NoResult == [defined |-> FALSE, pathsNotFound |-> <<>>]

\* One call of add_js: the Ajax object, response.data, the bundle ids defined,
\* what the call returned ("promise" or "throw: LoadJS"), the closure of
\* subscribe (left is its counter of bundles waited for, depsNotFound its list),
\* the promise add_js returned, whether Drupal.attachBehaviors was called, the
\* message of the rejection, and the state of the command that follows add_js
\* in the response.
NewCommand(instanceIndex, data, ids) ==
    [ajax |-> instanceIndex, data |-> data, ids |-> ids, result |-> "promise",
     left |-> Len(ids), depsNotFound |-> <<>>, promise |-> "pending",
     attached |-> FALSE, message |-> "", later |-> "idle"]

NoCommand == [NewCommand(0 - 1, <<>>, <<>>) EXCEPT !.result = "none", !.promise = "none"]

\* The record of a task of add_js or of a script element: the commands whose
\* queue went on or ended in the task, the bundle published, the type of the
\* event and the callbacks of ready() that were waiting for the bundle.
\* An object of JavaScript read at a key, with what an absent key gives, and
\* written at a key.
Get(object, key, undefined) == IF key \in DOMAIN object THEN object[key] ELSE undefined

Put(object, key, value) ==
    [k \in DOMAIN object \cup {key} |-> IF k = key THEN value ELSE object[k]]

JsRet(op, instanceIndex, result, settled, id, type, subscribers) ==
    [op |-> op, obj |-> instanceIndex, result |-> result, settled |-> settled,
     id |-> id, type |-> type, subscribers |-> subscribers]

\* ------------------------------------------------------------ behaviours
Init ==
    /\ ajaxing = [a \in Objs |-> "undefined"]
    /\ active = 0
    /\ reqs = <<>>
    /\ nsent = 0
    /\ ret = Idle
    /\ instances = <<>>
    /\ body = Elements
    /\ bundleIdCache = {}
    /\ bundleResultCache = [id \in {} |-> NoResult]
    /\ bundleCallbackQueue = [id \in {} |-> <<>>]
    /\ scripts = {}
    /\ addjs = [instanceIndex \in {} |-> NoCommand]

Requests == 1..Len(reqs)

\* What the page says of ajax.url when the event fires: isLocal is only asked of
\* a url that is not trusted.
Urls == {[trusted |-> TRUE, isLocal |-> FALSE], [trusted |-> FALSE, isLocal |-> TRUE],
         [trusted |-> FALSE, isLocal |-> FALSE]}

Next ==
    \/ \E a \in Objs, fail \in {"none", "serialize"} : Execute(a, fail)
    \/ \E a \in Objs, url \in Urls, fail \in {"none", "serialize"} :
           TriggerEvent(a, url.trusted, url.isLocal, fail)
    \/ \E r \in Requests, resp \in ShortResponses, header \in Headers, trusted \in BOOLEAN :
           OptionsSuccess(r, resp, header, trusted)
    \/ \E r \in Requests : OptionsError(r)
    \/ \E r \in Requests, i \in Keys, ok \in BOOLEAN : Settle(r, i, ok)

Spec == Init /\ [][Next]_vars

NextQueue ==
    \/ \E a \in Objs, fail \in {"none", "serialize"} : reqs = <<>> /\ Execute(a, fail)
    \/ \E r \in Requests, resp \in Responses, header \in Headers, trusted \in BOOLEAN :
           OptionsSuccess(r, resp, header, trusted)
    \/ \E r \in Requests : OptionsError(r)
    \/ \E r \in Requests, i \in Keys, ok \in BOOLEAN : Settle(r, i, ok)

SpecQueue == Init /\ [][NextQueue]_vars

\* ------------------------------------------------- Drupal.ajax.instances
\* An entry of Drupal.ajax.instances set to null.
Null == [isNull |-> TRUE, instanceIndex |-> 0 - 1, element |-> NoElement]

\* instanceIndex taken from the length after the push.
NewInstanceIndexAfterPush(insts, el) ==
    [isNull |-> FALSE, instanceIndex |-> Len(insts) + 1, element |-> el]

\* The Ajax object Drupal.ajax() creates: instanceIndex is the length of
\* Drupal.ajax.instances before the push, counted from 0 as in the array.
NewInstance(insts, el) == [isNull |-> FALSE, instanceIndex |-> Len(insts), element |-> el]

\* Drupal.ajax(settings), with the number of arguments of the call and
\* settings.element || false.
DrupalAjax(nargs, el) ==
    /\ UNCHANGED <<reqVars, jsVars, body>>
    /\ IF nargs # 1
       THEN /\ ret' = Ret("ajax", 0, "throw: one configuration object only", FALSE, FALSE,
                          <<>>, NoRequest)
            /\ UNCHANGED instances
       ELSE /\ Len(instances) < MaxInstances
            /\ instances' = Append(instances, NewInstance(instances, el))
            /\ ret' = Ret("ajax", 0, "ajax", FALSE, FALSE, <<>>, NoRequest)

\* The filter without the test for objects that have no element.
IsExpiredElementNotTested(instance, bd) ==
    /\ ~instance.isNull
    /\ instance.element \notin bd

\* The filter of Drupal.ajax.expired.
IsExpired(instance, bd) ==
    /\ ~instance.isNull
    /\ instance.element # NoElement
    /\ instance.element \notin bd

\* Drupal.ajax.expired()
expired(insts, bd) == SelectSeq(insts, LAMBDA instance : IsExpired(instance, bd))

\* Drupal.ajax.instances[index] = null for an index counted from 0; an index
\* past the end lengthens the array.
SetNull(insts, index) ==
    [i \in 1..(IF index + 1 > Len(insts) THEN index + 1 ELSE Len(insts)) |->
        IF i = index + 1 \/ i > Len(insts) THEN Null ELSE insts[i]]

\* The forEach of detach over the expired instances.
RECURSIVE ForEachSetNull(_, _)
ForEachSetNull(insts, list) ==
    IF list = <<>> THEN insts
    ELSE ForEachSetNull(SetNull(insts, Head(list).instanceIndex), Tail(list))

\* Drupal.behaviors.AJAX.detach(context, settings, trigger)
Detach(trigger) ==
    /\ UNCHANGED <<reqVars, jsVars, body>>
    /\ instances' = IF trigger = "unload"
                    THEN ForEachSetNull(instances, expired(instances, body))
                    ELSE instances
    /\ ret' = Ret("detach", 0, trigger, FALSE, FALSE, <<>>, NoRequest)

\* The page takes an element out of document.body or puts it back.
RemoveElement(el) ==
    /\ el \in body
    /\ body' = body \ {el}
    /\ ret' = Ret("remove", 0, "none", FALSE, FALSE, <<>>, NoRequest)
    /\ UNCHANGED <<reqVars, jsVars, instances>>

InsertElement(el) ==
    /\ el \notin body
    /\ body' = body \cup {el}
    /\ ret' = Ret("insert", 0, "none", FALSE, FALSE, <<>>, NoRequest)
    /\ UNCHANGED <<reqVars, jsVars, instances>>

Triggers == {"unload", "serialize", "move"}

NextInst ==
    \/ \E nargs \in {1, 2}, el \in Elements \cup {NoElement} : DrupalAjax(nargs, el)
    \/ \E trigger \in Triggers : Detach(trigger)
    \/ \E el \in Elements : RemoveElement(el)
    \/ \E el \in Elements : InsertElement(el)

SpecInst == Init /\ [][NextInst]_vars

\* ------------------------------------------------------ add_js and loadjs
\* loadjs: if (t in c) throw "LoadJS"
IsDefined(id, cache) == id \in cache

\* response.data.map(...): loadjs(script.src, uniqueBundleId, {...}) for each
\* script in turn. loadjs throws for a bundle id already defined, which ends the
\* map; otherwise it defines the id and creates the script element, which the
\* before callback appends to the page. st holds the cache, the script
\* elements, the ids returned so far and whether loadjs threw.
RECURSIVE MapLoadjs(_, _, _, _)
MapLoadjs(instanceIndex, data, k, st) ==
    IF k > Len(data) \/ st.threw THEN st
    ELSE LET id == BundleId(data[k], instanceIndex)
         IN  IF IsDefined(id, st.c)
             THEN [st EXCEPT !.threw = TRUE]
             ELSE MapLoadjs(instanceIndex, data, k + 1,
                            [c |-> st.c \cup {id},
                             scripts |-> st.scripts \cup {[path |-> data[k], bundleId |-> id]},
                             ids |-> Append(st.ids, id),
                             threw |-> FALSE])

RECURSIVE Join(_)
Join(list) ==
    IF list = <<>> THEN ""
    ELSE IF Len(list) = 1 THEN list[1]
    ELSE list[1] \o ", " \o Join(Tail(list))

\* The message add_js rejects with.
Message(depsNotFound) == "The following files could not be loaded: " \o Join(depsNotFound)

\* executeCallbacks(args, depsNotFound) with the success and error callbacks
\* add_js gives to loadjs.ready.
ExecuteCallbacks(cmd) ==
    IF Len(cmd.depsNotFound) > 0
    THEN [cmd EXCEPT !.promise = "rejected", !.message = Message(cmd.depsNotFound)]
    ELSE [cmd EXCEPT !.attached = TRUE, !.promise = "fulfilled"]

\* --o || r(i): the callback is called when the counter reaches 0.
NumWaiting(left) == left = 0

\* The function subscribe() queues for each bundle: a bundle with paths not
\* found is added to depsNotFound, and the callback of ready() runs once every
\* bundle was published.
SubscribeFn(cmd, id, pathsNotFound) ==
    LET counted == [cmd EXCEPT !.left = @ - 1,
                               !.depsNotFound = IF Len(pathsNotFound) > 0
                                                THEN Append(@, id) ELSE @]
    IN  IF cmd.promise = "pending" /\ NumWaiting(counted.left)
        THEN ExecuteCallbacks(counted)
        ELSE counted

\* loadjs.ready(allUniqueBundleIds, {...}): subscribe() goes through the ids
\* from the last to the first; a bundle already published is counted at once,
\* the others get the function queued. st holds the command and the queues.
RECURSIVE Subscribe(_, _)
Subscribe(k, st) ==
    IF k = 0 THEN st
    ELSE LET id == st.cmd.ids[k]
             s == Get(bundleResultCache, id, NoResult)
         IN  IF s.defined
             THEN Subscribe(k - 1, [st EXCEPT !.cmd = SubscribeFn(@, id, s.pathsNotFound)])
             ELSE Subscribe(k - 1, [st EXCEPT !.f = Put(@, id, Append(Get(@, id, <<>>),
                                                                      st.cmd.ajax))])

\* The command after add_js in the response: the reactions of the command
\* execution queue, given what the then() callback that called add_js left
\* (a pending, fulfilled or rejected promise; rejected when add_js threw).
LaterCommand(cmd) ==
    LET first == IF cmd.result = "throw: LoadJS" THEN "rejected" ELSE cmd.promise
        rq == [NoRequest EXCEPT
                  !.cmds = <<"promise", "sync">>,
                  !.cstate = <<IF first = "pending" THEN "running"
                               ELSE IF first = "fulfilled" THEN "finished" ELSE "failed",
                              "idle">>,
                  !.chain = <<first, "pending">>]
    IN  [cmd EXCEPT !.later = RunQueue(rq, 1).cstate[2]]

\* The Ajax objects Drupal.ajax() created, by instanceIndex.
Created == {instances[k].instanceIndex : k \in {j \in 1..Len(instances) : ~instances[j].isNull}}

\* Drupal.AjaxCommands.prototype.add_js, called by the command execution queue
\* for the Ajax object with this instanceIndex. An Ajax object handles one
\* response at a time: ajaxing is true until the queue has settled.
AddJs(instanceIndex, data) ==
    /\ instanceIndex \in Created
    /\ Get(addjs, instanceIndex, NoCommand) = NoCommand
    /\ UNCHANGED <<reqVars, instVars, bundleResultCache>>
    /\ LET m == MapLoadjs(instanceIndex, data, 1,
                          [c |-> bundleIdCache, scripts |-> scripts, ids |-> <<>>,
                           threw |-> FALSE])
           cmd == NewCommand(instanceIndex, data, m.ids)
           sub == Subscribe(Len(cmd.ids), [cmd |-> cmd, f |-> bundleCallbackQueue])
       IN  /\ bundleIdCache' = m.c
           /\ scripts' = m.scripts
           /\ IF m.threw
              THEN /\ ret' = JsRet("add_js", instanceIndex, "throw: LoadJS",
                                   {LaterCommand([cmd EXCEPT !.result = "throw: LoadJS",
                                                             !.promise = "none"])},
                                   "", "none", <<>>)
                   /\ UNCHANGED <<bundleCallbackQueue, addjs>>
              ELSE /\ bundleCallbackQueue' = sub.f
                   /\ IF sub.cmd.promise = "pending"
                      THEN /\ addjs' = Put(addjs, instanceIndex, sub.cmd)
                           /\ ret' = JsRet("add_js", instanceIndex, "promise", {}, "", "none",
                                           <<>>)
                      ELSE /\ ret' = JsRet("add_js", instanceIndex, "promise",
                                           {LaterCommand(sub.cmd)}, "", "none", <<>>)
                           /\ UNCHANGED addjs

\* publish(bundleId, pathsNotFound): the functions queued for the bundle are
\* called in order and taken off the queue.
RECURSIVE Publish(_, _, _, _)
Publish(id, pathsNotFound, subscribers, cmds) ==
    IF subscribers = <<>> THEN cmds
    ELSE Publish(id, pathsNotFound, Tail(subscribers),
                 Put(cmds, Head(subscribers),
                     SubscribeFn(Get(cmds, Head(subscribers), NoCommand), id, pathsNotFound)))

\* The load or error event of a script element loadjs created (numRetries is
\* not set, so an error is final): the callback of loadFiles publishes the
\* bundle; the promises this settles let their queues go on.
ScriptEvent(script, type) ==
    /\ script \in scripts
    /\ UNCHANGED <<reqVars, instVars, bundleIdCache>>
    /\ LET id == script.bundleId
           pathsNotFound == IF type = "error" THEN <<script.path>> ELSE <<>>
           subscribers == Get(bundleCallbackQueue, id, <<>>)
           cmds == Publish(id, pathsNotFound, subscribers, addjs)
           settled == {i \in DOMAIN cmds : cmds[i].promise \in {"fulfilled", "rejected"}}
       IN  /\ scripts' = scripts \ {script}
           /\ bundleResultCache' =
                  Put(bundleResultCache, id, [defined |-> TRUE, pathsNotFound |-> pathsNotFound])
           /\ bundleCallbackQueue' = IF id \in DOMAIN bundleCallbackQueue
                                     THEN Put(bundleCallbackQueue, id, <<>>)
                                     ELSE bundleCallbackQueue
           /\ addjs' = [i \in DOMAIN cmds \ settled |-> cmds[i]]
           /\ ret' = JsRet("script", 0 - 1, "none", {LaterCommand(cmds[i]) : i \in settled},
                           id, type, subscribers)

NextJs ==
    \/ Len(instances) < NumAjax /\ DrupalAjax(1, NoElement)
    \/ \E instanceIndex \in InstanceIndexes, data \in Datas : AddJs(instanceIndex, data)
    \/ \E script \in scripts, type \in {"load", "error"} : ScriptEvent(script, type)

SpecJs == Init /\ [][NextJs]_vars

\* ----------------------------------------------------------- properties
\* The requests the state tells of: those in progress and the one the last task
\* handled.
Known == {reqs[r] : r \in Requests} \cup {ret.rq}

Started(q, i) == q.cstate[i] \in {"running", "finished", "failed"}
Fulfilled(q, i) == q.cstate[i] \in {"finished", "skipped"}

\* C1: the commands of a response run one at a time in the order of the keys:
\* a command has only started when every command before it has finished (a
\* command that returned a promise: when the promise was fulfilled), and the
\* promise of commandExecutionQueue is only fulfilled when every command has
\* finished.
C1_CommandsInSequence ==
    \A q \in Known :
        /\ \A j, k \in DOMAIN q.order : j < k => q.order[j] < q.order[k]
        /\ \A i \in DOMAIN q.cmds :
               Started(q, i) => \A j \in 1..(i - 1) : Fulfilled(q, j)
        /\ \A i \in DOMAIN q.cmds :
               Started(q, i) <=> \E k \in DOMAIN q.order : q.order[k] = i
        /\ (q.phase \in {"executing", "done"} /\ QueuePromise(q) = "fulfilled")
               => \A i \in DOMAIN q.cmds : Fulfilled(q, i)

\* A response of two commands that both returned a promise has been executed to
\* the end, the second after the first.
C1_Witness ==
    /\ ret.rq.phase = "done"
    /\ ret.rq.cmds = <<"promise", "promise">>
    /\ ret.rq.cstate = <<"finished", "finished">>
    /\ ret.rq.order = <<1, 2>>
    /\ ret.result = "fulfilled"

\* C2: an Ajax object has at most one request in progress, and while its
\* ajaxing is true neither eventResponse() nor execute() calls beforeSerialize
\* or sends a request.
C2_AtMostOne == \A a \in Objs : Cardinality({r \in Requests : reqs[r].obj = a}) <= 1

C2_NoSendStep ==
    \A a \in Objs :
        (ajaxing[a] = "true" /\ ret'.op \in {"event", "execute"} /\ ret'.obj = a)
            => /\ ~ret'.sent
               /\ ~ret'.serialized
               /\ reqs' = reqs
               /\ nsent' = nsent

C2_OneRequestAtATime == []C2_AtMostOne /\ [][C2_NoSendStep]_vars

\* The trigger event fired on an object whose request is in progress, and
\* nothing was sent.
C2_Witness ==
    /\ ret.op = "event"
    /\ ret.result = "undefined"
    /\ ~ret.sent
    /\ ajaxing[ret.obj] = "true"
    /\ \E r \in Requests : reqs[r].obj = ret.obj

\* C3: while a command of a successful response is executing ajaxing is true, and
\* a task that sets it back to false after a response leaves no command of that
\* response executing or still to be started.
C3_TrueWhileExecuting ==
    \A r \in Requests : reqs[r].phase = "executing" => ajaxing[reqs[r].obj] = "true"

C3_ResetStep ==
    \A a \in Objs :
        (ajaxing[a] = "true" /\ ajaxing'[a] # "true" /\ ret'.op \in {"success", "settle"})
            => LET q == ret'.rq
               IN  /\ q.obj = a
                   /\ q.phase = "done"
                   /\ ajaxing'[a] = "false"
                   /\ \A r \in 1..Len(reqs') : reqs'[r].obj # a
                   /\ \A i \in DOMAIN q.cmds :
                          \/ q.cstate[i] \in {"finished", "skipped", "failed"}
                          \/ q.cstate[i] = "idle" /\ q.chain[i] = "rejected"

C3_AjaxingUntilCommandsDone == []C3_TrueWhileExecuting /\ [][C3_ResetStep]_vars

\* The promise of the last command of a response was fulfilled and ajaxing was
\* set back to false.
C3_Witness ==
    /\ ret.op = "settle"
    /\ ret.rq.phase = "done"
    /\ ret.rq.cmds = <<"promise">>
    /\ ret.rq.cstate = <<"finished">>
    /\ ajaxing[ret.obj] = "false"

\* C4: the commands of a response are only run, and Drupal.Ajax.success is only
\* called, when the response is null, the url is trusted or the header
\* X-Drupal-Ajax-Token is '1'; any other response raises ajax.error with the
\* failed verification message and none of its commands runs.
C4_OnlyVerifiedResponses ==
    \A q \in Known :
        LET ok == q.isNull \/ q.trusted \/ q.header = "1"
        IN  /\ (q.successCalled \/ \E i \in DOMAIN q.cmds : q.cstate[i] # "idle") => ok
            /\ (q.phase \in {"executing", "done", "unverified"} /\ ~ok)
                   => /\ q.phase = "unverified"
                      /\ q.error = "failed verification"
                      /\ ~q.successCalled
                      /\ q.order = <<>>
                      /\ \A i \in DOMAIN q.cmds : q.cstate[i] = "idle"
            /\ (q.phase \in {"executing", "done"}) => q.successCalled
            /\ q.phase = "unverified" => ~ok

\* A response with commands failed verification.
C4_Witness ==
    /\ ret.rq.phase = "unverified"
    /\ ret.rq.cmds = <<"sync", "promise">>
    /\ ret.result = "throw: AjaxError"

\* C5: the handler of the trigger event throws when the url is neither trusted
\* nor local, sends no request and leaves ajaxing as it was.
C5_ThrowStep ==
    (ret'.op = "event" /\ ~ret'.trusted /\ ~ret'.isLocal)
        => /\ ret'.result = "throw: not local and not trusted"
           /\ ~ret'.sent
           /\ ~ret'.serialized
           /\ UNCHANGED <<ajaxing, reqs, nsent, active>>

C5_UntrustedNotLocalThrows == [][C5_ThrowStep]_vars

\* The handler threw for an object that is idle and could have sent.
C5_Witness ==
    /\ ret.op = "event"
    /\ ret.result = "throw: not local and not trusted"
    /\ ajaxing[ret.obj] = "false"
    /\ nsent < MaxReq

\* C6: every call of execute() returns a Deferred: the jqXHR of the request it
\* sent, or a rejected Deferred with ajaxing false when pre-serialization
\* failed.
C6_ExecuteReturnsDeferred ==
    ret.op = "execute"
        => \/ ret.result = "jqXHR" /\ ret.sent
           \/ ret.result = "rejected" /\ ~ret.sent /\ ajaxing[ret.obj] = "false"

\* C7: for a response with X-Drupal-Ajax-Token '1', ajaxSuccess, ajaxComplete
\* and ajaxStop are not delivered while the commands of the request are
\* executing, and once the queue has finished they are delivered in the order
\* ajaxSuccess, ajaxComplete and, only when jQuery.active has reached 0,
\* ajaxStop.
C7_EventsAfterCommands ==
    /\ \A r \in Requests :
           (reqs[r].phase = "executing" /\ reqs[r].header = "1")
               => /\ reqs[r].events = <<>>
                  /\ \A k \in DOMAIN ret.delivered : ret.delivered[k] # "ajaxStop"
    /\ (ret.rq.phase = "done" /\ ret.rq.header = "1")
           => /\ ret.rq.events = <<"ajaxSuccess", "ajaxComplete">>
                                     \o (IF active = 0 THEN <<"ajaxStop">> ELSE <<>>)
              /\ ret.delivered = ret.rq.events

\* C8: jQuery.active stays above 0 and is left as it was by the response while
\* the commands of a request are executing, and a request that completed
\* successfully has decremented it by exactly one.
C8_ActiveCounter ==
    /\ \A r \in Requests :
           reqs[r].phase = "executing" => active > 0 /\ reqs[r].dec = 0
    /\ ret.rq.phase = "done" => ret.rq.dec = 1

\* C9: every entry of Drupal.ajax.instances that is not null has its own index
\* as instanceIndex, and a step only appends entries or sets entries to null.
C9_IndexIsPosition ==
    \A i \in DOMAIN instances : ~instances[i].isNull => instances[i].instanceIndex = i - 1

C9_AppendOrNullStep ==
    /\ Len(instances') >= Len(instances)
    /\ \A i \in DOMAIN instances : instances'[i] = instances[i] \/ instances'[i] = Null

C9_InstanceIndexUnique == []C9_IndexIsPosition /\ [][C9_AppendOrNullStep]_vars

\* An entry was set to null and entries after it keep their index.
C9_Witness ==
    /\ Len(instances) = 3
    /\ instances[1].isNull
    /\ ~instances[2].isNull
    /\ ~instances[3].isNull

\* C10: expired() returns exactly the entries that are not null, have an element
\* and whose element is not in document.body; detach sets exactly those entries
\* to null for the trigger 'unload' and changes nothing for another trigger.
C10_ExpiredExactly ==
    LET e == expired(instances, body)
        want == {i \in DOMAIN instances :
                    /\ ~instances[i].isNull
                    /\ instances[i].element # NoElement
                    /\ instances[i].element \notin body}
    IN  /\ {e[k] : k \in DOMAIN e} = {instances[i] : i \in want}
        /\ Len(e) = Cardinality(want)

C10_DetachStep ==
    ret'.op = "detach"
        => /\ Len(instances') = Len(instances)
           /\ \A i \in DOMAIN instances :
                  instances'[i] =
                      IF /\ ret'.result = "unload"
                         /\ ~instances[i].isNull
                         /\ instances[i].element # NoElement
                         /\ instances[i].element \notin body
                      THEN Null
                      ELSE instances[i]

C10_DetachNullsExpired == []C10_ExpiredExactly /\ [][C10_DetachStep]_vars

\* An unload has set the entry of a removed element to null and kept an object
\* without element and an object whose element is in the page.
C10_Witness ==
    /\ ret.op = "detach"
    /\ ret.result = "unload"
    /\ \E i, j, k \in DOMAIN instances :
           /\ instances[i].isNull
           /\ ~instances[j].isNull /\ instances[j].element = NoElement
           /\ ~instances[k].isNull /\ instances[k].element \in body

\* The add_js commands the state tells of: those whose promise is pending and
\* those the last task ended.
KnownJs ==
    {addjs[i] : i \in DOMAIN addjs}
        \cup (IF ret.op \in {"add_js", "script"} THEN ret.settled ELSE {})

\* The bundle of the k-th script of the data of a command.
Listed(cmd, k) == Get(bundleResultCache, BundleId(cmd.data[k], cmd.ajax), NoResult)

\* The files of a list of bundles of a command, in the order of the list.
Files(cmd, ids) ==
    [k \in 1..Len(ids) |-> CHOOSE src \in Srcs : BundleId(src, cmd.ajax) = ids[k]]

\* The command after add_js has only started when every script of response.data
\* was loaded and Drupal.attachBehaviors was called.
LaterCommandWaits ==
    \A cmd \in KnownJs :
        cmd.later # "idle" =>
            /\ cmd.attached
            /\ \A k \in 1..Len(cmd.data) :
                   Listed(cmd, k).defined /\ Listed(cmd, k).pathsNotFound = <<>>

\* C11: no later command of the response starts until every script listed in
\* response.data has loaded and behaviors have been attached; and once the
\* scripts listed have loaded or failed, with at least one failing, the promise
\* of the command is rejected with the message that names the files that
\* failed.
C11_AddJsWaitsForScripts ==
    /\ LaterCommandWaits
    /\ \A cmd \in KnownJs :
           (/\ \A k \in 1..Len(cmd.data) : Listed(cmd, k).defined
            /\ \E k \in 1..Len(cmd.data) : Listed(cmd, k).pathsNotFound # <<>>)
               => /\ cmd.promise = "rejected"
                  /\ cmd.message = Message(Files(cmd, cmd.depsNotFound))

\* Does a list name no script twice.
NoDuplicates(data) == \A j, k \in 1..Len(data) : data[j] = data[k] => j = k

\* C12: the bundle id add_js passes to loadjs was never defined before, whatever
\* Ajax objects handled which responses earlier: no call of add_js whose data
\* lists each script once ends with loadjs throwing "LoadJS".
C12_BundleIdNeverDefinedBefore ==
    ret.op = "add_js" =>
        \A cmd \in ret.settled : NoDuplicates(cmd.data) => cmd.result # "throw: LoadJS"
====
